---- MODULE Spec2Model ----
(***************************************************************************)
(* The mgo cluster (src/cluster.go): the topology sets, the reference      *)
(* count, the synchronizer (syncServers, its probe goroutines, syncServer, *)
(* mergeServer, removeServer) and the router (AcquireSocket).              *)
(*                                                                         *)
(* Every goroutine is a process.  cluster.Lock() and cluster.RLock() are   *)
(* steps of their own; the statements of a critical section up to its      *)
(* Unlock() are a later step of the same goroutine, so that other          *)
(* goroutines run between the two.  The RWMutex is the one of the sync     *)
(* package the code was written for: a mutex w and a count of readers,     *)
(* the first reader locks w, the last reader unlocks it, Lock() and        *)
(* Unlock() are w.Lock() and w.Unlock().  Unlock() of a mutex that is not  *)
(* locked is a run-time error, and a run-time error ends the program.      *)
(***************************************************************************)
EXTENDS Integers, Sequences, FiniteSets, TLC

\* ------------------------------------------------------------------ bounds
NAcquirers == 2      \* goroutines calling AcquireSocket at once, at most
NCallers == 1        \* goroutines calling AcquireSocket where the synchronizer is the subject
NSyncers == 2        \* goroutines that may be inside syncServers at once
NPasses == 2         \* pass-local variable sets (started, finished, done, seen) alive at once
MaxStarted == 3      \* probe goroutines one pass spawns
MaxReferences == 2   \* references held by external owners
MaxElapsed == 2      \* clock ticks counted per AcquireSocket call (saturating)

Acquirers == 1..NAcquirers
Syncers == 1..NSyncers
Passes == 1..NPasses

\* ------------------------------------------------------------- environment
\* Addresses the deployment knows.  "A2" is a second name of server "A".
Addrs == {"A", "A2", "B"}

\* newServer(addr): the address resolution done when a server value is made.
ResolvedAddr(addr) == IF addr = "A2" THEN "A" ELSE addr

\* The order of the addresses (strings compare bytewise).
AddrRank(addr) == CASE addr = "A" -> 1 [] addr = "A2" -> 2 [] OTHER -> 3

\* Answers to the "ismaster" command.
IsMasterResults ==
    { [IsMaster |-> m, Secondary |-> s, Primary |-> p, Hosts |-> h, Passives |-> <<>>] :
        m \in BOOLEAN, s \in BOOLEAN, p \in {"", "B"}, h \in {<<>>, <<"B">>} }

\* syncTimeout arguments of AcquireSocket.
Timeouts == {-1, 0, 1}

\* What can fail: newServer (the address does not resolve), the socket or the command of
\* syncServer, server.AcquireSocket().
Faults == {"resolve", "dial", "open"}

\* ------------------------------------------------------------------- state
VARIABLES
    callers,      \* the goroutines that call AcquireSocket
    peers,        \* the addresses the servers of the deployment report as peers
    timeouts,     \* the syncTimeout arguments the callers pass
    writes,       \* the write arguments the callers pass
    faults,       \* the failures the network produces ("resolve", "dial", "open")
    answers,      \* the answers the servers give to "ismaster"
    userSeeds,    \* cluster.userSeeds
    dynaSeeds,    \* cluster.dynaSeeds
    servers,      \* cluster.servers: sequence of addresses (a handle is keyed by Addr)
    srvMaster,    \* Master field of the handle held in servers, per address
    masters,      \* cluster.masters
    slaves,       \* cluster.slaves
    syncing,      \* cluster.syncing
    references,   \* cluster.references
    extRefs,      \* references held by external owners (newCluster's, Acquire's)
    hstate,       \* per address: the handle added to servers ("none", "open", "closed", "reclosed")
    lockW,        \* RWMutex: the write side is held
    readerCount,  \* RWMutex: number of readers counted
    apc,          \* AcquireSocket: position of each caller
    awrite,       \* AcquireSocket: the write argument
    atimeout,     \* AcquireSocket: the syncTimeout argument
    aelapsed,     \* AcquireSocket: time.Nanoseconds() - started
    amode,        \* AcquireSocket: how the caller holds the RWMutex ("", "r", "w")
    aserver,      \* AcquireSocket: the selected server
    opc,          \* Acquire, Release: position of the owner's goroutine
    spc,          \* syncServers: position of each caller
    known,        \* syncServers: the known slice
    sidx,         \* syncServers: index of the seed loop
    spass,        \* syncServers: the pass-local variable set in use (0: none)
    pLen,         \* per pass: len(known) as the closure sees it
    pStarted,     \* per pass: started
    pFinished,    \* per pass: finished
    pDone,        \* per pass: the done mutex is locked
    pSeen,        \* per pass: keys of the seen map
    br            \* per pass: the probe goroutines, in spawn order

cvars == <<userSeeds, dynaSeeds, servers, srvMaster, masters, slaves, syncing, references, extRefs, hstate>>
lvars == <<lockW, readerCount>>
avars == <<apc, awrite, atimeout, aelapsed, amode, aserver>>
svars == <<spc, known, sidx, spass>>
pvars == <<pLen, pStarted, pFinished, pDone, pSeen, br>>
evars == <<callers, peers, timeouts, writes, faults, answers, opc>>
vars == <<evars, cvars, lvars, avars, svars, pvars>>

\* --------------------------------------------------------------- ServerSet
\* mongoServers: an ordered collection of handles keyed by address.
Has(set, addr) == \E i \in 1..Len(set) : set[i] = addr

\* Add keeps one handle per address, in the order of the addresses.
Add(set, addr) ==
    IF Has(set, addr) THEN set
    ELSE LET k == Cardinality({i \in 1..Len(set) : AddrRank(set[i]) < AddrRank(addr)})
         IN  [i \in 1..(Len(set) + 1) |->
                IF i <= k THEN set[i] ELSE IF i = k + 1 THEN addr ELSE set[i - 1]]

\* Remove drops the first handle with that address.
Remove(set, addr) ==
    IF Has(set, addr)
    THEN LET k == CHOOSE i \in 1..Len(set) : set[i] = addr /\ \A j \in 1..(i - 1) : set[j] # addr
         IN  [i \in 1..(Len(set) - 1) |-> IF i < k THEN set[i] ELSE set[i + 1]]
    ELSE set

Empty(set) == Len(set) = 0

Range(seq) == {seq[i] : i \in 1..Len(seq)}

\* ------------------------------------------------------------ RWMutex, Cond
\* cluster.RLock(): the first reader takes the write side, later readers only count.
CanRLock == readerCount > 0 \/ ~lockW

\* cluster.Lock(): the write side must be free.
CanLock == ~lockW

\* The mutex w after cluster.RLock(): only the first reader locks it.
LockAfterRLock == IF readerCount = 0 THEN TRUE ELSE lockW

\* cluster.RUnlock() of the last reader calls w.Unlock().
LastReader == readerCount = 1

\* The mutex w after cluster.RUnlock().
LockAfterRUnlock == IF LastReader THEN FALSE ELSE lockW

\* w.Unlock(): the position the goroutine goes on to, or the run-time error when w is
\* not locked.
AfterUnlock(next, error) == IF lockW THEN next ELSE error

\* serverSynced.Broadcast(): every goroutine that has queued in Wait is made runnable,
\* whether it sleeps ("waiting") or is still before its L.Unlock() ("queued").
Broadcast(pc) ==
    [a \in Acquirers |->
        IF pc[a] = "waiting" THEN "woken" ELSE IF pc[a] = "queued" THEN "signalled" ELSE pc[a]]

\* ------------------------------------------------------- cluster operations
\* The sets after removeServer(server), lines 92-94: || stops at the first Remove that succeeds.
RemovedSets(server) ==
    IF Has(servers, server)
    THEN [servers |-> Remove(servers, server), masters |-> masters, slaves |-> slaves]
    ELSE IF Has(masters, server)
    THEN [servers |-> servers, masters |-> Remove(masters, server), slaves |-> slaves]
    ELSE [servers |-> servers, masters |-> masters, slaves |-> Remove(slaves, server)]

\* removeServer, lines 92-98: the statements after Lock(), and Unlock().
removeServer(server) ==
    /\ servers' = RemovedSets(server).servers
    /\ masters' = RemovedSets(server).masters
    /\ slaves' = RemovedSets(server).slaves
    /\ srvMaster' = IF Has(servers, server) THEN [srvMaster EXCEPT ![server] = FALSE] ELSE srvMaster
    /\ lockW' = FALSE
    /\ UNCHANGED <<evars, userSeeds, dynaSeeds, syncing, references, extRefs, hstate, readerCount>>

\* mergeServer without the role comparison of line 183: a known server is always moved.
MergedSetsAlwaysFlips(server, master) ==
    IF ~Has(servers, server)
    THEN [servers |-> Add(servers, server),
          masters |-> IF master THEN Add(masters, server) ELSE masters,
          slaves |-> IF master THEN slaves ELSE Add(slaves, server)]
    ELSE IF srvMaster[server]
         THEN [servers |-> servers, masters |-> Remove(masters, server), slaves |-> Add(slaves, server)]
         ELSE [servers |-> servers, masters |-> Add(masters, server), slaves |-> Remove(slaves, server)]

\* The sets after mergeServer(server), server.Master being master.
MergedSets(server, master) ==
    IF ~Has(servers, server)
    THEN [servers |-> Add(servers, server),
          masters |-> IF master THEN Add(masters, server) ELSE masters,
          slaves |-> IF master THEN slaves ELSE Add(slaves, server)]
    ELSE IF master # srvMaster[server]
    THEN IF srvMaster[server]
         THEN [servers |-> servers, masters |-> Remove(masters, server), slaves |-> Add(slaves, server)]
         ELSE [servers |-> servers, masters |-> Add(masters, server), slaves |-> Remove(slaves, server)]
    ELSE [servers |-> servers, masters |-> masters, slaves |-> slaves]

\* The handles after mergeServer(server): servers.Add(server) holds a new handle.
MergedHandles(server) ==
    IF ~Has(servers, server) THEN [hstate EXCEPT ![server] = "open"] ELSE hstate

\* mergeServer, lines 172-198: the statements after Lock(), with the Broadcast, and
\* Unlock().
mergeServer(server, master) ==
    /\ servers' = MergedSets(server, master).servers
    /\ masters' = MergedSets(server, master).masters
    /\ slaves' = MergedSets(server, master).slaves
    /\ srvMaster' = [srvMaster EXCEPT ![server] = master]
    /\ hstate' = MergedHandles(server)
    /\ lockW' = FALSE
    /\ UNCHANGED <<evars, userSeeds, dynaSeeds, syncing, references, extRefs, readerCount>>

\* getKnownAddrs: userSeeds, dynaSeeds and the servers' addresses, first occurrences kept.
RECURSIVE Dedup(_, _)
Dedup(seq, seen) ==
    IF seq = <<>> THEN <<>>
    ELSE IF Head(seq) \in seen THEN Dedup(Tail(seq), seen)
    ELSE <<Head(seq)>> \o Dedup(Tail(seq), seen \cup {Head(seq)})

getKnownAddrs == Dedup(userSeeds \o dynaSeeds \o servers, {})

\* syncServer: the peers it returns, the primary first.
HostsOf(result) ==
    (IF result.Primary # "" THEN <<result.Primary>> ELSE <<>>) \o result.Hosts \o result.Passives

\* ------------------------------------------------------------ pass-locals
\* Where a probe goroutine stands: before newServer and the lookup in seen ("new"),
\* before the write to seen ("mark"), inside syncServer ("probe"), inside removeServer
\* or mergeServer with the lock taken ("removing", "merging"), before its deferred
\* function ("exit"); in the loop of lines 290-292 with hosts left to spawn ("hosts B",
\* "hosts B B"); stopped by a run-time error ("panic").
SpawnStages == {"hosts B", "hosts B B"}

Stages == {"new", "mark", "probe", "removing", "merging", "exit", "panic"} \cup SpawnStages

\* The stage of a goroutine that has the list hosts left to spawn.
Spawning(hosts) ==
    CASE hosts = <<>> -> "exit"
      [] hosts = <<"B">> -> "hosts B"
      [] hosts = <<"B", "B">> -> "hosts B B"

\* The hosts a goroutine at stage st has left to spawn.
HostsLeft(st) ==
    CASE st = "hosts B" -> <<"B">>
      [] st = "hosts B B" -> <<"B", "B">>
      [] OTHER -> <<>>

NoBranches == [x \in Addrs \X Stages |-> 0]

AllDone(b) == \A x \in Addrs \X Stages : b[x] = 0

Put(b, addr, st) == [b EXCEPT ![<<addr, st>>] = @ + 1]

Move(b, addr, from, to) == [b EXCEPT ![<<addr, from>>] = @ - 1, ![<<addr, to>>] = @ + 1]

Owned(p) == \E c \in Syncers : spass[c] = p

\* A variable set no goroutine refers to any more.
FreePass(p) == ~Owned(p) /\ AllDone(br[p])

SetPass(p, len, st, fi, dn, sn, b) ==
    /\ pLen' = [pLen EXCEPT ![p] = len]
    /\ pStarted' = [pStarted EXCEPT ![p] = st]
    /\ pFinished' = [pFinished EXCEPT ![p] = fi]
    /\ pDone' = [pDone EXCEPT ![p] = dn]
    /\ pSeen' = [pSeen EXCEPT ![p] = sn]
    /\ br' = [br EXCEPT ![p] = b]

\* The variables of a pass are garbage once its coordinator and goroutines are gone.
SetOrDrop(p, owned, len, st, fi, dn, sn, b) ==
    IF ~owned /\ AllDone(b)
    THEN SetPass(p, 0, 0, 0, FALSE, {}, NoBranches)
    ELSE SetPass(p, len, st, fi, dn, sn, b)

\* Seeds of the loop at line 297 not yet spawned.
SeedsLeft(p) ==
    IF \E c \in Syncers : spass[c] = p /\ spc[c] = "spawn"
    THEN LET c == CHOOSE c \in Syncers : spass[c] = p /\ spc[c] = "spawn"
         IN  Len(known[c]) - sidx[c] + 1
    ELSE 0

\* Hosts the goroutines of the branches in S have left to spawn.
RECURSIVE PendingHosts(_, _)
PendingHosts(b, S) ==
    IF S = {} THEN 0
    ELSE LET k == CHOOSE k \in S : TRUE
         IN  b[k] * Len(HostsLeft(k[2])) + PendingHosts(b, S \ {k})

\* Probe goroutines the pass has spawned or is bound to spawn.
Committed(p) == pStarted[p] + SeedsLeft(p) + PendingHosts(br[p], Addrs \X SpawnStages)

\* An unrecovered run-time error in any goroutine ends the program.
Running ==
    /\ opc # "panic"
    /\ \A a \in Acquirers : apc[a] \notin {"fault", "panic"}
    /\ \A c \in Syncers : spc[c] # "panic"
    /\ \A p \in Passes, x \in Addrs : br[p][<<x, "panic">>] = 0

\* spawnSync(addr), lines 262-266, for each address of a list: count the goroutine, start it.
RECURSIVE spawnSync(_, _)
spawnSync(b, addrs) ==
    IF addrs = <<>> THEN b ELSE spawnSync(Put(b, Head(addrs), "new"), Tail(addrs))


\* ------------------------------------------------------------ syncServers
\* go cluster.syncServers(): a goroutine enters syncServers.
GoSyncServers ==
    /\ \E c \in Syncers : spc[c] = "idle"
    /\ LET c == CHOOSE c \in Syncers : spc[c] = "idle" /\ \A d \in Syncers : spc[d] = "idle" => c <= d
       IN  spc' = [spc EXCEPT ![c] = "start"]
    /\ UNCHANGED <<known, sidx, spass>>

\* getKnownAddrs, line 202: cluster.RLock().
SyncKnownRLock(c) ==
    /\ spc[c] = "start"
    /\ Running
    /\ CanRLock
    /\ lockW' = LockAfterRLock
    /\ readerCount' = readerCount + 1
    /\ spc' = [spc EXCEPT ![c] = "known"]
    /\ UNCHANGED <<evars, cvars, avars, known, sidx, spass, pvars>>

\* Line 239, getKnownAddrs from line 203 on: the addresses are read, then RUnlock().
SyncKnown(c) ==
    /\ spc[c] = "known"
    /\ Running
    /\ known' = [known EXCEPT ![c] = getKnownAddrs]
    /\ readerCount' = readerCount - 1
    /\ lockW' = LockAfterRUnlock
    /\ spc' = [spc EXCEPT ![c] = IF LastReader THEN AfterUnlock("guard", "panic") ELSE "guard"]
    /\ UNCHANGED <<evars, cvars, avars, sidx, spass, pvars>>

\* The position of syncServers inside the critical section it has asked the lock for.
Locked(pos) ==
    CASE pos = "guard" -> "guardL"
      [] pos = "complete" -> "completeL"
      [] pos = "retry" -> "retryL"
      [] pos = "release" -> "releaseL"

\* Lines 241, 303 and 77 (Release called at 326 and 332): cluster.Lock().
SyncLock(c) ==
    /\ spc[c] \in {"guard", "complete", "retry", "release"}
    /\ Running
    /\ CanLock
    /\ lockW' = TRUE
    /\ spc' = [spc EXCEPT ![c] = Locked(spc[c])]
    /\ UNCHANGED <<evars, cvars, readerCount, avars, known, sidx, spass, pvars>>

\* The guard of line 242.
GuardStops == syncing \/ references = 0

\* Lines 242-245: the guard stops the call: Unlock() and return.
SyncGuardReturn(c) ==
    /\ spc[c] = "guardL"
    /\ Running
    /\ GuardStops
    /\ lockW' = FALSE
    /\ spc' = [spc EXCEPT ![c] = AfterUnlock("idle", "panic")]
    /\ known' = [known EXCEPT ![c] = <<>>]
    /\ UNCHANGED <<evars, cvars, readerCount, avars, sidx, spass, pvars>>

\* Line 242: the call has read syncing and references and goes on.
SyncGuardTest(c) ==
    /\ spc[c] = "guardL"
    /\ Running
    /\ ~GuardStops
    /\ spc' = [spc EXCEPT ![c] = "guardS"]
    /\ UNCHANGED <<evars, cvars, lvars, avars, known, sidx, spass, pvars>>

\* Lines 246-259: the call takes its reference, sets syncing, unlocks and declares its
\* pass-local variables.
SyncGuardPass(c) ==
    /\ spc[c] = "guardS"
    /\ Running
    /\ \E p \in Passes : FreePass(p)
    /\ LET p == CHOOSE p \in Passes : FreePass(p) /\ \A q \in Passes : FreePass(q) => p <= q
       IN  /\ spass' = [spass EXCEPT ![c] = p]
           /\ SetPass(p, Len(known[c]), 0, 0, TRUE, {}, NoBranches)
    /\ references' = references + 1
    /\ syncing' = TRUE
    /\ lockW' = FALSE
    /\ spc' = [spc EXCEPT ![c] = AfterUnlock("spawn", "panic")]
    /\ sidx' = [sidx EXCEPT ![c] = 1]
    /\ UNCHANGED <<evars, userSeeds, dynaSeeds, servers, srvMaster, masters, slaves, extRefs, hstate,
                   readerCount, avars, known>>

\* Lines 297-299: one iteration of the seed loop.
SyncSpawn(c) ==
    /\ spc[c] = "spawn"
    /\ Running
    /\ sidx[c] <= Len(known[c])
    /\ pStarted' = [pStarted EXCEPT ![spass[c]] = @ + 1]
    /\ br' = [br EXCEPT ![spass[c]] = spawnSync(@, <<known[c][sidx[c]]>>)]
    /\ sidx' = [sidx EXCEPT ![c] = sidx[c] + 1]
    /\ spc' = [spc EXCEPT ![c] = IF sidx[c] + 1 > Len(known[c]) THEN "wait" ELSE "spawn"]
    /\ UNCHANGED <<evars, cvars, lvars, avars, known, spass, pLen, pFinished, pDone, pSeen>>

\* Line 301: done.Lock() returns once the done mutex is unlocked.
SyncDone(c) ==
    /\ spc[c] = "wait"
    /\ Running
    /\ ~pDone[spass[c]]
    /\ pDone' = [pDone EXCEPT ![spass[c]] = TRUE]
    /\ spc' = [spc EXCEPT ![c] = "complete"]
    /\ UNCHANGED <<evars, cvars, lvars, avars, known, sidx, spass, pLen, pStarted, pFinished, pSeen, br>>

\* The dynamic seeds after a pass that adds the servers to the seeds it had (a variant,
\* not the code's).
NewDynaSeedsMerged == Dedup(dynaSeeds \o servers, {})

\* Lines 312-319: the dynamic seeds after a pass.
NewDynaSeeds == IF ~Empty(servers) THEN servers ELSE dynaSeeds

\* Lines 321-332: with no master known the pass is run again, else syncServers returns.
AfterPass == IF Len(masters) = 0 THEN "retry" ELSE "release"

\* Lines 305-331: the critical section that ends the pass, with its Unlock().
SyncComplete(c) ==
    /\ spc[c] = "completeL"
    /\ Running
    /\ syncing' = FALSE
    /\ dynaSeeds' = NewDynaSeeds
    /\ apc' = IF Len(masters) = 0 THEN Broadcast(apc) ELSE apc
    /\ lockW' = FALSE
    /\ spc' = [spc EXCEPT ![c] = AfterUnlock(AfterPass, "panic")]
    /\ spass' = [spass EXCEPT ![c] = 0]
    /\ known' = [known EXCEPT ![c] = <<>>]
    /\ sidx' = [sidx EXCEPT ![c] = 0]
    /\ LET p == spass[c]
       IN  SetOrDrop(p, FALSE, pLen[p], pStarted[p], pFinished[p], pDone[p], pSeen[p], br[p])
    /\ UNCHANGED <<evars, userSeeds, servers, srvMaster, masters, slaves, references, extRefs, hstate,
                   readerCount, awrite, atimeout, aelapsed, amode, aserver>>

\* Release, lines 76-88: the count after the call.
ReleasedReferences == references - 1

\* server.Close() on a handle.
Closed(h) == IF h = "open" THEN "closed" ELSE IF h = "none" THEN "none" ELSE "reclosed"

\* Release, lines 82-86: when the count reaches zero the handles in servers are closed.
ReleasedHandles ==
    IF ReleasedReferences = 0
    THEN [x \in Addrs |-> IF Has(servers, x) THEN Closed(hstate[x]) ELSE hstate[x]]
    ELSE hstate

\* Lines 326-329 and 332: cluster.Release() from line 78 on (the panic of line 79 with
\* no reference left), then sleep and restart, or return.
SyncRelease(c) ==
    /\ spc[c] \in {"retryL", "releaseL"}
    /\ Running
    /\ IF references = 0
       THEN /\ spc' = [spc EXCEPT ![c] = "panic"]
            /\ UNCHANGED <<references, hstate, lockW>>
       ELSE /\ references' = ReleasedReferences
            /\ hstate' = ReleasedHandles
            /\ lockW' = FALSE
            /\ spc' = [spc EXCEPT ![c] = AfterUnlock(IF spc[c] = "retryL" THEN "start" ELSE "idle", "panic")]
    /\ UNCHANGED <<evars, userSeeds, dynaSeeds, servers, srvMaster, masters, slaves, syncing, extRefs,
                   readerCount, avars, known, sidx, spass, pvars>>

\* ---------------------------------------------------- the probe goroutines
\* Lines 277-285: newServer(addr), then the lookup in seen.
ProbeNew(p, addr) ==
    /\ br[p][<<addr, "new">>] > 0
    /\ Running
    /\ \E ok \in {TRUE} \cup {FALSE : f \in faults \cap {"resolve"}} :
         LET found == ResolvedAddr(addr) \in pSeen[p]
         IN  br' = [br EXCEPT ![p] = Move(@, addr, "new", IF ok /\ ~found THEN "mark" ELSE "exit")]
    /\ UNCHANGED <<evars, cvars, lvars, avars, svars, pLen, pStarted, pFinished, pDone, pSeen>>

\* Line 286: seen[server.ResolvedAddr] = true; then syncServer is entered.
ProbeMark(p, addr) ==
    /\ br[p][<<addr, "mark">>] > 0
    /\ Running
    /\ pSeen' = [pSeen EXCEPT ![p] = @ \cup {ResolvedAddr(addr)}]
    /\ br' = [br EXCEPT ![p] = Move(@, addr, "mark", "probe")]
    /\ UNCHANGED <<evars, cvars, lvars, avars, svars, pLen, pStarted, pFinished, pDone>>

\* syncServer, lines 113-137: the socket or the command fails; the deferred removeServer
\* is entered: cluster.Lock() at line 91.
ProbeFail(p, addr) ==
    /\ br[p][<<addr, "probe">>] > 0
    /\ Running
    /\ "dial" \in faults
    /\ CanLock
    /\ lockW' = TRUE
    /\ br' = [br EXCEPT ![p] = Move(@, addr, "probe", "removing")]
    /\ UNCHANGED <<evars, cvars, readerCount, avars, svars, pLen, pStarted, pFinished, pDone, pSeen>>

\* removeServer called by syncServer, lines 92-98; syncServer then returns its error.
ProbeRemove(p, addr) ==
    /\ br[p][<<addr, "removing">>] > 0
    /\ Running
    /\ removeServer(addr)
    /\ br' = [br EXCEPT ![p] = Move(@, addr, "removing", AfterUnlock("exit", "panic"))]
    /\ UNCHANGED <<avars, svars, pLen, pStarted, pFinished, pDone, pSeen>>

\* syncServer, lines 140-167: the server answers "ismaster"; mergeServer is entered:
\* cluster.Lock() at line 171.
ProbeAnswer(p, addr) ==
    /\ br[p][<<addr, "probe">>] > 0
    /\ Running
    /\ answers # {}
    /\ CanLock
    /\ lockW' = TRUE
    /\ br' = [br EXCEPT ![p] = Move(@, addr, "probe", "merging")]
    /\ UNCHANGED <<evars, cvars, readerCount, avars, svars, pLen, pStarted, pFinished, pDone, pSeen>>

\* syncServer with the answer result: the answer has set server.Master (lines 148-150),
\* the server is merged (lines 172-198), and syncServer returns the hosts reported.
ProbeMergeWith(p, addr, result) ==
    /\ br[p][<<addr, "merging">>] > 0
    /\ Running
    /\ Range(HostsOf(result)) \subseteq peers
    /\ Committed(p) + Len(HostsOf(result)) <= MaxStarted
    /\ mergeServer(addr, result.IsMaster)
    /\ apc' = Broadcast(apc)
    /\ br' = [br EXCEPT ![p] = Move(@, addr, "merging",
                                    AfterUnlock(Spawning(HostsOf(result)), "panic"))]
    /\ UNCHANGED <<awrite, atimeout, aelapsed, amode, aserver, svars, pLen, pStarted, pFinished,
                   pDone, pSeen>>

\* mergeServer with some answer to "ismaster".
ProbeMerge(p, addr) == \E result \in answers : ProbeMergeWith(p, addr, result)

\* Line 271: the condition under which a finishing goroutine unlocks done.
Quiesced(p, fin) == pStarted[p] = fin /\ fin >= pLen[p]

\* Lines 290-292: one iteration of the loop over hosts, spawnSync of the next host.
ProbeSpawn(p, addr, st) ==
    /\ br[p][<<addr, st>>] > 0
    /\ pStarted' = [pStarted EXCEPT ![p] = @ + 1]
    /\ br' = [br EXCEPT ![p] = spawnSync(Move(@, addr, st, Spawning(Tail(HostsLeft(st)))),
                                         <<Head(HostsLeft(st))>>)]
    /\ UNCHANGED <<evars, cvars, lvars, avars, svars, pLen, pFinished, pDone, pSeen>>

\* Lines 268-275: the deferred function of a probe goroutine; done.Unlock() of a mutex
\* that is not locked is a run-time error.
ProbeExit(p, addr) ==
    /\ br[p][<<addr, "exit">>] > 0
    /\ LET fin == pFinished[p] + 1
       IN  IF Quiesced(p, fin) /\ ~pDone[p]
           THEN SetPass(p, pLen[p], pStarted[p], fin, pDone[p], pSeen[p],
                        Move(br[p], addr, "exit", "panic"))
           ELSE SetOrDrop(p, Owned(p), pLen[p], pStarted[p], fin,
                          IF Quiesced(p, fin) THEN FALSE ELSE pDone[p], pSeen[p],
                          [br[p] EXCEPT ![<<addr, "exit">>] = @ - 1])
    /\ UNCHANGED <<evars, cvars, lvars, avars, svars>>

\* Lines 289-293 and 268-275: what a goroutine does once syncServer has returned.
ProbeReturn(p, addr) ==
    /\ Running
    /\ \E st \in SpawnStages \cup {"exit"} :
         /\ br[p][<<addr, st>>] > 0
         /\ IF st = "exit" THEN ProbeExit(p, addr) ELSE ProbeSpawn(p, addr, st)

\* ----------------------------------------------------------- AcquireSocket
Active(a) == apc[a] \notin {"idle", "done", "failed", "fault", "panic"}

\* Line 339: the call starts and reads the clock.
AcquireCall(a) ==
    /\ a \in callers
    /\ Running
    /\ apc[a] = "idle"
    /\ \E w \in writes, t \in timeouts :
         /\ awrite' = [awrite EXCEPT ![a] = w]
         /\ atimeout' = [atimeout EXCEPT ![a] = t]
    /\ aelapsed' = [aelapsed EXCEPT ![a] = 0]
    /\ apc' = [apc EXCEPT ![a] = "rlock"]
    /\ UNCHANGED <<evars, cvars, lvars, amode, aserver, svars, pvars>>

\* Line 341: cluster.RLock().
AcquireRLock(a) ==
    /\ apc[a] = "rlock"
    /\ Running
    /\ CanRLock
    /\ lockW' = LockAfterRLock
    /\ readerCount' = readerCount + 1
    /\ amode' = [amode EXCEPT ![a] = "r"]
    /\ apc' = [apc EXCEPT ![a] = "check"]
    /\ UNCHANGED <<evars, cvars, awrite, atimeout, aelapsed, aserver, svars, pvars>>

\* Line 344: a server the call may use exists.
Eligible(write) == ~Empty(masters) \/ (~write /\ ~Empty(slaves))

\* A deadline test without the syncTimeout > 0 condition (a variant, not the code's).
TimedOutAny(syncTimeout, elapsed) == elapsed > syncTimeout

\* Line 347: the deadline has passed.
TimedOut(syncTimeout, elapsed) == syncTimeout > 0 /\ elapsed > syncTimeout

\* Lines 344-346: the wait loop ends.
AcquireReady(a) ==
    /\ apc[a] = "check"
    /\ Running
    /\ Eligible(awrite[a])
    /\ apc' = [apc EXCEPT ![a] = "select"]
    /\ UNCHANGED <<evars, cvars, lvars, awrite, atimeout, aelapsed, amode, aserver, svars, pvars>>

\* Lines 347-350: RUnlock and return "no reachable servers".
AcquireTimeout(a) ==
    /\ apc[a] = "check"
    /\ Running
    /\ ~Eligible(awrite[a])
    /\ TimedOut(atimeout[a], aelapsed[a])
    /\ readerCount' = readerCount - 1
    /\ lockW' = LockAfterRUnlock
    /\ amode' = [amode EXCEPT ![a] = ""]
    /\ apc' = [apc EXCEPT ![a] = IF LastReader THEN AfterUnlock("failed", "fault") ELSE "failed"]
    /\ UNCHANGED <<evars, cvars, awrite, atimeout, aelapsed, aserver, svars, pvars>>

\* Lines 347-351: no server yet and no deadline passed: the call goes on to Wait.
AcquireNotReady(a) ==
    /\ apc[a] = "check"
    /\ Running
    /\ ~Eligible(awrite[a])
    /\ ~TimedOut(atimeout[a], aelapsed[a])
    /\ apc' = [apc EXCEPT ![a] = "wait"]
    /\ UNCHANGED <<evars, cvars, lvars, awrite, atimeout, aelapsed, amode, aserver, svars, pvars>>

\* Line 352, serverSynced.Wait(): the caller is added to the waiters of the Cond.
AcquireQueue(a) ==
    /\ apc[a] = "wait"
    /\ Running
    /\ apc' = [apc EXCEPT ![a] = "queued"]
    /\ UNCHANGED <<evars, cvars, lvars, awrite, atimeout, aelapsed, amode, aserver, svars, pvars>>

\* Line 352, serverSynced.Wait(): L.Unlock(), which is w.Unlock() of the RWMutex (line
\* 62), then the caller sleeps unless a Broadcast has come since it queued.  With w not
\* locked the Unlock is a run-time error.
AcquireWait(a) ==
    /\ apc[a] \in {"queued", "signalled"}
    /\ Running
    /\ lockW' = FALSE
    /\ amode' = [amode EXCEPT ![a] = IF lockW THEN "" ELSE @]
    /\ apc' = [apc EXCEPT ![a] = AfterUnlock(IF @ = "queued" THEN "waiting" ELSE "woken", "fault")]
    /\ UNCHANGED <<evars, cvars, readerCount, awrite, atimeout, aelapsed, aserver, svars, pvars>>

\* Line 352: Wait() returns through L.Lock(), which is w.Lock().
AcquireWake(a) ==
    /\ apc[a] = "woken"
    /\ Running
    /\ CanLock
    /\ lockW' = TRUE
    /\ amode' = [amode EXCEPT ![a] = "w"]
    /\ apc' = [apc EXCEPT ![a] = "check"]
    /\ UNCHANGED <<evars, cvars, readerCount, awrite, atimeout, aelapsed, aserver, svars, pvars>>

\* A selection that never looks at slaves (a variant, not the code's).
UseMastersAlways(write) == TRUE

\* Line 356: the set the server is taken from.
UseMasters(write) == write \/ Empty(slaves)

\* Lines 355-361: select index 0 of the set and RUnlock; Get(0) of an empty set panics.
AcquireSelect(a) ==
    /\ apc[a] = "select"
    /\ Running
    /\ LET set == IF UseMasters(awrite[a]) THEN masters ELSE slaves
       IN  IF Empty(set)
           THEN /\ apc' = [apc EXCEPT ![a] = "panic"]
                /\ UNCHANGED <<lvars, amode, aserver>>
           ELSE /\ aserver' = [aserver EXCEPT ![a] = set[1]]
                /\ readerCount' = readerCount - 1
                /\ lockW' = LockAfterRUnlock
                /\ amode' = [amode EXCEPT ![a] = ""]
                /\ apc' = [apc EXCEPT ![a] = IF LastReader THEN AfterUnlock("open", "fault")
                                                            ELSE "open"]
    /\ UNCHANGED <<evars, cvars, awrite, atimeout, aelapsed, svars, pvars>>

\* Lines 363-369: server.AcquireSocket() succeeds or fails.
AcquireOpen(a) ==
    /\ apc[a] = "open"
    /\ Running
    /\ \E ok \in {TRUE} \cup {FALSE : f \in faults \cap {"open"}} :
         apc' = [apc EXCEPT ![a] = IF ok THEN "done" ELSE "remove"]
    /\ UNCHANGED <<evars, cvars, lvars, awrite, atimeout, aelapsed, amode, aserver, svars, pvars>>

\* Line 365, removeServer entered: cluster.Lock() at line 91.
AcquireRemoveLock(a) ==
    /\ apc[a] = "remove"
    /\ Running
    /\ CanLock
    /\ lockW' = TRUE
    /\ apc' = [apc EXCEPT ![a] = "removing"]
    /\ UNCHANGED <<evars, cvars, readerCount, awrite, atimeout, aelapsed, amode, aserver, svars, pvars>>

\* Line 365: removeServer(server), lines 92-98.
AcquireRemove(a) ==
    /\ apc[a] = "removing"
    /\ Running
    /\ removeServer(aserver[a])
    /\ apc' = [apc EXCEPT ![a] = AfterUnlock("go", "fault")]
    /\ UNCHANGED <<awrite, atimeout, aelapsed, amode, aserver, svars, pvars>>

\* Line 367: what the retry does to the time already spent.
ElapsedOnRetry(elapsed) == elapsed

\* Lines 366-367: go cluster.syncServers(), continue; at most NSyncers goroutines are
\* inside syncServers.
AcquireGo(a) ==
    /\ apc[a] = "go"
    /\ Running
    /\ GoSyncServers
    /\ apc' = [apc EXCEPT ![a] = "rlock"]
    /\ aserver' = [aserver EXCEPT ![a] = ""]
    /\ aelapsed' = [aelapsed EXCEPT ![a] = ElapsedOnRetry(aelapsed[a])]
    /\ UNCHANGED <<evars, cvars, lvars, awrite, atimeout, amode, pvars>>

\* The caller takes the result; the goroutine may call again.
AcquireReturn(a) ==
    /\ apc[a] \in {"done", "failed"}
    /\ Running
    /\ apc' = [apc EXCEPT ![a] = "idle"]
    /\ awrite' = [awrite EXCEPT ![a] = FALSE]
    /\ atimeout' = [atimeout EXCEPT ![a] = 0]
    /\ aelapsed' = [aelapsed EXCEPT ![a] = 0]
    /\ aserver' = [aserver EXCEPT ![a] = ""]
    /\ UNCHANGED <<evars, cvars, lvars, amode, svars, pvars>>

\* Line 347 reads the clock only when syncTimeout > 0; the time spent is counted up to MaxElapsed.
Clocked(a) == Active(a) /\ atimeout[a] > 0 /\ aelapsed[a] < MaxElapsed

\* time.Nanoseconds() advances.
Tick ==
    /\ \E a \in Acquirers : Clocked(a)
    /\ Running
    /\ aelapsed' = [a \in Acquirers |-> IF Clocked(a) THEN aelapsed[a] + 1 ELSE aelapsed[a]]
    /\ UNCHANGED <<evars, cvars, lvars, apc, awrite, atimeout, amode, aserver, svars, pvars>>

\* ----------------------------------------------------------- the owners
\* Acquire or Release is called by an owner, who holds a reference: cluster.Lock() at
\* line 69 or 77.  At most MaxReferences references are held by owners.
OwnerLock(op) ==
    /\ opc = "idle"
    /\ Running
    /\ CanLock
    /\ extRefs > 0
    /\ op = "acquire" => extRefs < MaxReferences
    /\ lockW' = TRUE
    /\ opc' = op
    /\ UNCHANGED <<callers, peers, timeouts, writes, faults, answers, cvars, readerCount, avars, svars, pvars>>

\* Acquire, lines 70-71.
Acquire ==
    /\ opc = "acquire"
    /\ Running
    /\ references' = references + 1
    /\ extRefs' = extRefs + 1
    /\ lockW' = FALSE
    /\ opc' = AfterUnlock("idle", "panic")
    /\ UNCHANGED <<callers, peers, timeouts, writes, faults, answers, userSeeds, dynaSeeds, servers, srvMaster, masters, slaves,
                   syncing, hstate, readerCount, avars, svars, pvars>>

\* Release, lines 78-87, called by an owner.
Release ==
    /\ opc = "release"
    /\ Running
    /\ IF references = 0
       THEN /\ opc' = "panic"
            /\ UNCHANGED <<references, hstate, extRefs, lockW>>
       ELSE /\ references' = ReleasedReferences
            /\ hstate' = ReleasedHandles
            /\ extRefs' = extRefs - 1
            /\ lockW' = FALSE
            /\ opc' = AfterUnlock("idle", "panic")
    /\ UNCHANGED <<callers, peers, timeouts, writes, faults, answers, userSeeds, dynaSeeds, servers, srvMaster, masters, slaves,
                   syncing, readerCount, avars, svars, pvars>>

\* ------------------------------------------------------------------ system
\* newCluster, lines 60-65: one reference, and go cluster.syncServers().
InitCluster ==
    /\ opc = "idle"
    /\ dynaSeeds = <<>>
    /\ servers = <<>>
    /\ srvMaster = [x \in Addrs |-> FALSE]
    /\ masters = <<>>
    /\ slaves = <<>>
    /\ syncing = FALSE
    /\ references = 1
    /\ extRefs = 1
    /\ hstate = [x \in Addrs |-> "none"]
    /\ lockW = FALSE
    /\ readerCount = 0
    /\ apc = [a \in Acquirers |-> "idle"]
    /\ awrite = [a \in Acquirers |-> FALSE]
    /\ atimeout = [a \in Acquirers |-> 0]
    /\ aelapsed = [a \in Acquirers |-> 0]
    /\ amode = [a \in Acquirers |-> ""]
    /\ aserver = [a \in Acquirers |-> ""]
    /\ spc = [c \in Syncers |-> IF c = 1 THEN "start" ELSE "idle"]
    /\ known = [c \in Syncers |-> <<>>]
    /\ sidx = [c \in Syncers |-> 0]
    /\ spass = [c \in Syncers |-> 0]
    /\ pLen = [p \in Passes |-> 0]
    /\ pStarted = [p \in Passes |-> 0]
    /\ pFinished = [p \in Passes |-> 0]
    /\ pDone = [p \in Passes |-> FALSE]
    /\ pSeen = [p \in Passes |-> {}]
    /\ br = [p \in Passes |-> NoBranches]

\* The synchronizer: the callers of syncServers and the probe goroutines.
NextSync ==
    \/ \E c \in Syncers : SyncKnownRLock(c)
    \/ \E c \in Syncers : SyncKnown(c)
    \/ \E c \in Syncers : SyncLock(c)
    \/ \E c \in Syncers : SyncGuardReturn(c)
    \/ \E c \in Syncers : SyncGuardTest(c)
    \/ \E c \in Syncers : SyncGuardPass(c)
    \/ \E c \in Syncers : SyncSpawn(c)
    \/ \E c \in Syncers : SyncDone(c)
    \/ \E c \in Syncers : SyncComplete(c)
    \/ \E c \in Syncers : SyncRelease(c)
    \/ \E p \in Passes, x \in Addrs : ProbeNew(p, x)
    \/ \E p \in Passes, x \in Addrs : ProbeMark(p, x)
    \/ \E p \in Passes, x \in Addrs : ProbeAnswer(p, x)
    \/ \E p \in Passes, x \in Addrs : ProbeMerge(p, x)
    \/ \E p \in Passes, x \in Addrs : ProbeReturn(p, x)

\* A server that cannot be reached by syncServer.
NextUnreachable ==
    \/ \E p \in Passes, x \in Addrs : ProbeFail(p, x)
    \/ \E p \in Passes, x \in Addrs : ProbeRemove(p, x)

\* The owners of references.
NextOwners ==
    \/ \E op \in {"acquire", "release"} : OwnerLock(op)
    \/ Acquire
    \/ Release

\* The callers of AcquireSocket.
NextCalls ==
    \/ \E a \in Acquirers : AcquireCall(a)
    \/ \E a \in Acquirers : AcquireRLock(a)
    \/ \E a \in Acquirers : AcquireReady(a)
    \/ \E a \in Acquirers : AcquireNotReady(a)
    \/ \E a \in Acquirers : AcquireQueue(a)
    \/ \E a \in Acquirers : AcquireWait(a)
    \/ \E a \in Acquirers : AcquireWake(a)
    \/ \E a \in Acquirers : AcquireSelect(a)
    \/ \E a \in Acquirers : AcquireOpen(a)
    \/ \E a \in Acquirers : AcquireReturn(a)

\* A connection that cannot be opened: the server is removed and syncServers is started.
NextFailover ==
    \/ \E a \in Acquirers : AcquireRemoveLock(a)
    \/ \E a \in Acquirers : AcquireRemove(a)
    \/ \E a \in Acquirers : AcquireGo(a)

\* The clock and the deadline of a call with syncTimeout > 0.
NextDeadline ==
    \/ \E a \in Acquirers : AcquireTimeout(a)
    \/ Tick

\* The owner keeps its reference while AcquireSocket is called.
Next == NextSync \/ NextUnreachable \/ NextCalls \/ NextFailover \/ NextDeadline

\* A single server "A"; calls with and without a deadline; every failure and answer.
Init ==
    /\ callers = 1..NCallers
    /\ userSeeds = <<"A">>
    /\ peers = {}
    /\ timeouts = Timeouts
    /\ writes = BOOLEAN
    /\ faults = Faults
    /\ answers = IsMasterResults
    /\ InitCluster

Spec == Init /\ [][Next]_vars

\* Concurrent callers of AcquireSocket; a single server "A", which may be unreachable
\* for syncServer; calls without a deadline whose connections open; owners that take and
\* release references.
InitContend ==
    /\ callers = Acquirers
    /\ userSeeds = <<"A">>
    /\ peers = {}
    /\ timeouts = {0}
    /\ writes = BOOLEAN
    /\ faults = {"dial"}
    /\ answers = IsMasterResults
    /\ InitCluster

SpecContend == InitContend /\ [][NextSync \/ NextUnreachable \/ NextCalls \/ NextOwners]_vars

\* The answers of a server that is not a master.
NoMasterAnswers == {r \in IsMasterResults : ~r.IsMaster}

\* Concurrent write calls with a deadline; a single server "A", which may be a master,
\* a slave or unreachable for syncServer; the owner may release its reference.
InitDeadline ==
    /\ callers = Acquirers
    /\ userSeeds = <<"A">>
    /\ peers = {}
    /\ timeouts = {1}
    /\ writes = {TRUE}
    /\ faults = {"dial"}
    /\ answers = IsMasterResults
    /\ InitCluster

SpecDeadline ==
    InitDeadline /\ [][NextSync \/ NextUnreachable \/ NextCalls \/ NextDeadline
                         \/ OwnerLock("release") \/ Release]_vars

\* Concurrent read calls whose connections may fail to open; a single server "A" that
\* is never a master.
InitFailover ==
    /\ callers = Acquirers
    /\ userSeeds = <<"A">>
    /\ peers = {}
    /\ timeouts = {0}
    /\ writes = {FALSE}
    /\ faults = {"open"}
    /\ answers = NoMasterAnswers
    /\ InitCluster

SpecFailover == InitFailover /\ [][NextSync \/ NextCalls \/ NextFailover]_vars

\* Two servers "A" and "B", each a master or a slave or unreachable for syncServer;
\* read and write calls; owners that take and release references.
InitRoute ==
    /\ callers = 1..NCallers
    /\ userSeeds = <<"A", "B">>
    /\ peers = {}
    /\ timeouts = {0}
    /\ writes = BOOLEAN
    /\ faults = {"dial"}
    /\ answers = IsMasterResults
    /\ InitCluster

SpecRoute == InitRoute /\ [][NextSync \/ NextUnreachable \/ NextCalls \/ NextOwners]_vars

\* Two servers "A" and "B" that are never masters; read calls whose connections may fail
\* to open; owners that take and release references.
InitSeeds ==
    /\ callers = 1..NCallers
    /\ userSeeds = <<"A", "B">>
    /\ peers = {}
    /\ timeouts = {0}
    /\ writes = {FALSE}
    /\ faults = {"open"}
    /\ answers = NoMasterAnswers
    /\ InitCluster

SpecSeeds == InitSeeds /\ [][NextSync \/ NextCalls \/ NextFailover \/ NextOwners]_vars

\* The synchronizer and the owner, who releases the reference of newCluster; the seeds
\* may name one server twice.
InitSync ==
    /\ callers = {}
    /\ timeouts = {}
    /\ writes = {}
    /\ faults = Faults
    /\ answers = IsMasterResults
    /\ \/ userSeeds = <<"A">> /\ peers = {"B"}
       \/ userSeeds = <<"A", "A2">> /\ peers = {}
    /\ InitCluster

SpecSync == InitSync /\ [][NextSync \/ NextUnreachable \/ OwnerLock("release") \/ Release]_vars

\* ------------------------------------------------------------------ claims
\* C1: in every reachable state masters and slaves are disjoint and their union is servers.
PartitionInvariant ==
    /\ Range(masters) \cap Range(slaves) = {}
    /\ Range(masters) \cup Range(slaves) = Range(servers)

\* A step that is removeServer(h) (from a failed probe or a failed connection-open).
RemoveStep(h) ==
    \/ \E p \in Passes : ProbeRemove(p, h)
    \/ \E a \in Acquirers : aserver[a] = h /\ AcquireRemove(a)

\* C2: after removeServer(h), h is in none of servers, masters and slaves.
RemoveServerRemovesAll ==
    [][\A h \in Addrs : RemoveStep(h) =>
            ~Has(servers', h) /\ ~Has(masters', h) /\ ~Has(slaves', h)]_vars

\* The step of a call from the selection on.
SelectStep(a) == apc[a] = "select" /\ apc'[a] # "select"

\* C3: a write call takes index 0 of masters; a read call takes index 0 of slaves when
\* slaves is not empty and index 0 of masters when slaves is empty; the server a write
\* call selects is in masters at that time.
SelectionBySets ==
    [][\A a \in Acquirers : SelectStep(a) =>
          /\ (awrite[a] /\ ~Empty(masters)) =>
                 apc'[a] = "open" /\ aserver'[a] = masters[1]
          /\ (~awrite[a] /\ ~Empty(slaves)) =>
                 apc'[a] = "open" /\ aserver'[a] = slaves[1]
          /\ (~awrite[a] /\ Empty(slaves) /\ ~Empty(masters)) =>
                 apc'[a] = "open" /\ aserver'[a] = masters[1]
          /\ (awrite[a] /\ apc'[a] = "open") => Has(masters, aserver'[a])]_vars

\* C3 happens: with the master "A" and the slave "B" known, a read call has selected "B".
ReadSelectedSlave ==
    \E a \in Acquirers :
        /\ apc[a] = "open"
        /\ ~awrite[a]
        /\ aserver[a] = "B"
        /\ masters = <<"A">>
        /\ slaves = <<"B">>

\* C4: the set AcquireSocket takes index 0 from is not empty when it selects.
SelectionSetNonEmpty ==
    \A a \in Acquirers :
        apc[a] = "select" => ~Empty(IF UseMasters(awrite[a]) THEN masters ELSE slaves)

\* A step that is a call of mergeServer.
MergeStep == \E p \in Passes, x \in Addrs : ProbeMerge(p, x)

\* C5: every mergeServer wakes every caller blocked in Wait, and a write caller woken
\* while masters is not empty goes on to return a connection; on a finite run: the
\* program does not end with a run-time error while such a caller has yet to go on.
WakeOnProgress ==
    /\ [][MergeStep => \A a \in Acquirers : apc[a] = "waiting" => apc'[a] = "woken"]_vars
    /\ [](\A a \in Acquirers : (apc[a] = "woken" /\ awrite[a] /\ ~Empty(masters)) => Running)

\* The positions of a call that has no server yet and has not returned.
Pending == {"rlock", "check", "wait", "queued", "signalled", "waiting", "woken"}

\* C6: a call with syncTimeout > 0 that finds no server it may use goes on to return the
\* failure; on a finite run: the program does not end with a run-time error while such
\* a call is pending.
DeadlineReturnsFailure ==
    \A a \in Acquirers :
        (apc[a] \in Pending /\ atimeout[a] > 0 /\ ~Eligible(awrite[a])) => Running

\* C7: a call fails only at the deadline test, with syncTimeout > 0 exceeded and no server
\* it may use; a failed open is followed by removeServer of the selected server, a new
\* syncServers goroutine and a new round of the loop with the time spent kept.
OnlyDeadlineFails ==
    [][\A a \in Acquirers :
          /\ (apc[a] # "failed" /\ apc'[a] = "failed") =>
                 /\ apc[a] = "check"
                 /\ atimeout[a] > 0
                 /\ aelapsed[a] > atimeout[a]
                 /\ ~Eligible(awrite[a])
          /\ (apc[a] = "open" /\ apc'[a] # "open") => apc'[a] \in {"done", "remove"}
          /\ (apc[a] = "remove" /\ apc'[a] # "remove") => apc'[a] = "removing"
          /\ (apc[a] = "removing" /\ apc'[a] # "removing") =>
                 /\ apc'[a] = "go"
                 /\ servers' = RemovedSets(aserver[a]).servers
                 /\ masters' = RemovedSets(aserver[a]).masters
                 /\ slaves' = RemovedSets(aserver[a]).slaves
          /\ (apc[a] = "go" /\ apc'[a] # "go") =>
                 /\ apc'[a] = "rlock"
                 /\ \E c \in Syncers : spc[c] = "idle" /\ spc'[c] = "start"
          /\ (apc[a] \in {"remove", "removing", "go"} /\ apc'[a] # apc[a]) =>
                 /\ aelapsed'[a] = aelapsed[a]
                 /\ atimeout'[a] = atimeout[a]
                 /\ awrite'[a] = awrite[a]]_vars

\* C7 happens: a call has returned the failure.
CallFailed == \E a \in Acquirers : apc[a] = "failed" /\ atimeout[a] > 0

\* C8: when the open of a write call's selected server fails, the server is removed from
\* servers and from masters.
FailoverRemovesMaster ==
    [][\A a \in Acquirers : (awrite[a] /\ AcquireRemove(a)) =>
            ~Has(servers', aserver[a]) /\ ~Has(masters', aserver[a])]_vars

\* The calls of syncServers between passing the guard and clearing syncing.
InPass == {c \in Syncers : spc[c] \in {"spawn", "wait", "complete", "completeL"}}

\* C9: at most one call of syncServers is between passing the guard and clearing syncing,
\* syncing is true for that time, and a call the guard stops leaves servers, masters,
\* slaves, dynaSeeds, syncing and references as they are.
AtMostOnePass ==
    /\ [](Cardinality(InPass) <= 1 /\ (InPass # {} => syncing))
    /\ [][(\E c \in Syncers : SyncGuardReturn(c)) =>
            UNCHANGED <<servers, masters, slaves, dynaSeeds, syncing, references>>]_vars

\* C10: the coordinator is past done.Lock() only when every goroutine of its pass has finished.
QuiescenceBeforeCompletion ==
    \A c \in Syncers : spc[c] \in {"complete", "completeL"} => AllDone(br[spass[c]])

\* The goroutines of pass p, among those started for the addresses in S, that are past
\* the lookup in seen and before the end of syncServer.
RECURSIVE PastLookup(_, _)
PastLookup(p, S) ==
    IF S = {} THEN 0
    ELSE LET x == CHOOSE x \in S : TRUE
         IN  br[p][<<x, "mark">>] + br[p][<<x, "probe">>] + br[p][<<x, "removing">>]
               + br[p][<<x, "merging">>] + PastLookup(p, S \ {x})

\* C11: in one pass, at most one of the goroutines whose addresses resolve to the same
\* address goes past the lookup in seen to syncServer.
DedupByResolvedAddr ==
    \A p \in Passes, x \in Addrs :
        PastLookup(p, {y \in Addrs : ResolvedAddr(y) = ResolvedAddr(x)}) <= 1

\* C12: references is never negative, and once it is zero every handle that was added to
\* servers has been closed exactly once.
TeardownClosesOnce ==
    /\ references >= 0
    /\ references = 0 => \A x \in Addrs : hstate[x] \in {"none", "closed"}

\* C13: a pass that completes with masters empty wakes every caller blocked in Wait and
\* goes on to restart; a call at the guard with references zero returns and changes
\* nothing; the restart is made while references is not zero: on a finite run, the
\* program does not end with a run-time error while a restart is due.
NoMasterRetry ==
    /\ [][\A c \in Syncers : (SyncComplete(c) /\ Empty(masters)) =>
             /\ \A a \in Acquirers : apc[a] = "waiting" => apc'[a] = "woken"
             /\ spc'[c] = "retry"]_vars
    /\ [][\A c \in Syncers : (spc[c] = "retryL" /\ spc'[c] # "retryL") => spc'[c] = "start"]_vars
    /\ [][\A c \in Syncers : (spc[c] = "guardL" /\ spc'[c] # "guardL" /\ references = 0) =>
             /\ spc'[c] = "idle"
             /\ UNCHANGED <<servers, masters, slaves, dynaSeeds, syncing, references>>]_vars
    /\ [](\A c \in Syncers : (spc[c] \in {"retry", "retryL"} /\ references > 0) => Running)

\* A step that is mergeServer of a handle for address x; its role is srvMaster'[x].
MergeStepOf(x) ==
    \E p \in Passes :
        /\ br'[p][<<x, "merging">>] < br[p][<<x, "merging">>]
        /\ ProbeMerge(p, x)

\* C14: mergeServer of an address that is in slaves with the role master moves it to masters
\* and out of slaves, and the other way round; servers is unchanged; afterwards the
\* partition that holds the address is the one of the recorded role.
RoleFlipMoves ==
    [][\A x \in Addrs : MergeStepOf(x) =>
          /\ (Has(slaves, x) /\ srvMaster'[x]) =>
                 Has(masters', x) /\ ~Has(slaves', x) /\ servers' = servers
          /\ (Has(masters, x) /\ ~srvMaster'[x]) =>
                 Has(slaves', x) /\ ~Has(masters', x) /\ servers' = servers
          /\ Has(masters', x) = srvMaster'[x]
          /\ Has(slaves', x) = ~srvMaster'[x]]_vars

\* The three sets as one record.
Sets == [servers |-> servers, masters |-> masters, slaves |-> slaves]

\* C15: after mergeServer of an address with a role, a second mergeServer of the same
\* address with the same role gives the same servers, masters and slaves; a merge of a
\* known address with the role it already has changes none of the three sets.
IdempotentMerge ==
    [][\A x \in Addrs, m \in BOOLEAN : (srvMaster'[x] = m /\ MergeStepOf(x)) =>
          /\ MergedSets(x, m)' = Sets'
          /\ (Has(servers, x) /\ srvMaster[x] = m) => Sets' = Sets]_vars

\* A goroutine has come back from syncServer with its address merged, in a pass that
\* follows one which ended with that address known.
MergedAgain ==
    \E x \in Addrs, p \in Passes :
        /\ Has(servers, x)
        /\ x \in Range(dynaSeeds)
        /\ ResolvedAddr(x) \in pSeen[p]
        /\ br[p][<<x, "exit">>] > 0

\* C16: a server whose answer to "ismaster" is neither IsMaster nor Secondary is put in
\* neither masters nor slaves by the merge that follows, and its goroutine goes on to
\* spawn a goroutine for each of the peers it reports.
NeitherIsUnclassified ==
    [][\A p \in Passes, x \in Addrs, result \in IsMasterResults :
          (~result.IsMaster /\ ~result.Secondary /\ ProbeMergeWith(p, x, result)) =>
              /\ ~Has(masters', x)
              /\ ~Has(slaves', x)
              /\ br'[p][<<x, Spawning(HostsOf(result))>>] > 0]_vars

\* The step in which syncer c ends its pass (the critical section of lines 303-331).
CompleteStep(c) == spc[c] = "completeL" /\ spc'[c] # "completeL"

\* C17: the step that ends a pass sets dynaSeeds to the addresses in servers when servers
\* is not empty and leaves dynaSeeds alone when it is empty; no other step changes
\* dynaSeeds, and no step changes userSeeds.
SeedsFrame ==
    [][/\ \A c \in Syncers : CompleteStep(c) =>
              dynaSeeds' = IF Empty(servers) THEN dynaSeeds ELSE servers
       /\ dynaSeeds' # dynaSeeds => \E c \in Syncers : CompleteStep(c)
       /\ userSeeds' = userSeeds]_vars

\* C17 happens: a pass has just ended with "B" alone in servers, "A" having been merged
\* and removed, and dynaSeeds holds "B" alone.
ReplacedDynaSeeds ==
    /\ servers = <<"B">>
    /\ dynaSeeds = <<"B">>
    /\ hstate["A"] # "none"
    /\ ~syncing
    /\ \E c \in Syncers : spc[c] \in {"retry", "release"}

\* The callers that hold the read lock by their own RLock().
Readers == {a \in Acquirers : amode[a] = "r"}

\* The calls of getKnownAddrs between RLock() and RUnlock().
KnownReaders == {c \in Syncers : spc[c] = "known"}

\* C18: a caller suspended in Wait holds neither side of the lock: the readers counted
\* are the goroutines that hold the read lock, none of them suspended; Wait never stops
\* the goroutine with a run-time error; and a caller that took the read lock never
\* comes back from Wait holding the write lock.
WaitHoldsNoLock ==
    /\ readerCount = Cardinality(Readers) + Cardinality(KnownReaders)
    /\ \A a \in Acquirers : apc[a] \in {"waiting", "woken"} => a \notin Readers
    /\ \A a \in Acquirers : apc[a] # "fault"
    /\ \A a \in Acquirers : amode[a] # "w"

\* A step in which a goroutine of pass p calls done.Unlock() (line 272).
UnlockStep(p) ==
    \E x \in Addrs : ProbeExit(p, x) /\ Quiesced(p, pFinished[p] + 1)

\* C19: the done mutex of a pass is unlocked once: a goroutine unlocks it only while it
\* is still locked from line 258 and the coordinator of the pass has not yet gone past
\* done.Lock(); the step that ends a pass clears syncing, and the coordinator then
\* gives back the reference taken at the guard.
SignalOnce ==
    /\ [][\A p \in Passes : UnlockStep(p) =>
             /\ pDone[p]
             /\ \E c \in Syncers : spass[c] = p /\ spc[c] \in {"spawn", "wait"}]_vars
    /\ [][\A c \in Syncers : CompleteStep(c) => ~syncing' /\ spc'[c] \in {"retry", "release"}]_vars
    /\ [][\A c \in Syncers : (spc[c] \in {"retryL", "releaseL"} /\ spc'[c] # spc[c]) =>
             references' = references - 1]_vars

\* C20: the topology is not torn down (references = 0) while a pass is in progress or a
\* goroutine of a pass is still running, so no goroutine merges into or removes from a
\* topology that has been torn down.
NoTeardownDuringPass ==
    references = 0 =>
        /\ ~syncing
        /\ InPass = {}
        /\ \A p \in Passes : AllDone(br[p])

====
